---- MODULE Spec2Model ----
(***************************************************************************)
(* Rate limiters of spess (src/spess/ratelimit.py) and the composite the   *)
(* HTTP backend builds from them (src/spess/_backend.py).                  *)
(*                                                                         *)
(* Time is the value of the injected timer, counted in ticks of            *)
(* 1/TicksPerSec second.  The float fields of the limiters are fixed-point *)
(* numbers: times in ticks, bucket levels in units of 1/LevelDen.  Every   *)
(* configuration used below divides exactly, so no rounding happens in the *)
(* model (IEEE rounding of the Python floats is outside the model).        *)
(***************************************************************************)
EXTENDS Integers, Sequences, FiniteSets

VARIABLES
    now,        \* value the timer returns (ticks)
    lim,        \* the limiter object (a tree of records)
    lock,       \* Synced._lock: 0 when free, else the thread holding it
    pc,         \* per thread: where it is in limit() / use() / reset()
    wait,       \* per thread: the local `wait` of limit()
    caller,     \* per thread: "limit" when use() was called by limit()
    wake,       \* per thread: end of the time.sleep() in progress
    log,        \* history: timer value of every recorded use, in order
    greedy,     \* history: a use() was made while wait_time was not None
    call,       \* history, per thread: what the current limit() call did
    lastRead,   \* history: the last direct wait_time read
    idles,      \* number of idle periods taken (bounded in SpecProd)
    local,      \* per thread: what the inner use() in progress read and computed
    shadow,     \* a limiter every use() and reset() is made on directly, in turn
    http,       \* Backend._call_json: the call in progress
    iter,       \* Limiter.limit_iter: the generator and its source
    paged       \* Paged.__iter__: the generator and the server's pages

vars == <<now, lim, lock, pc, wait, caller, wake, log, greedy, call,
          lastRead, idles, local, shadow, http, iter, paged>>

\* ---------------------------------------------------------------- bounds

MaxTime == 8        \* the timer stops advancing here
MaxStep == 2        \* largest single timer advance
MaxUses == 4        \* recorded uses per behaviour
NThreads == 2       \* concurrent callers in SpecSync
MaxTimeSync == 2    \* the timer stops advancing here in SpecSync
MaxUsesSync == 2    \* recorded uses per behaviour in SpecSync
MaxUsesProd == 32   \* recorded uses per behaviour in SpecProd
MaxIdles == 1       \* idle periods per behaviour in SpecProd
MaxRetried == 1     \* _call_json calls per behaviour whose first answer is 429
MaxTimeRate == 24   \* the timer stops advancing here in SpecRate
MaxChildren == 4    \* children of the Any built with | in SpecOr
MaxItems == 2       \* items of the source of limit_iter in SpecIter
MaxTotal == 21      \* items the server of a Paged holds in SpecPaged

\* ------------------------------------------------------- representation

TicksPerSec == 40   \* timer resolution: one tick is 25 ms
LevelDen == 4       \* bucket level resolution: one request is LevelDen units
None == -1          \* Python None as returned by wait_time
Inf == 1000000      \* float('inf')

Min(a, b) == IF a < b THEN a ELSE b
Max(a, b) == IF a > b THEN a ELSE b

\* ------------------------------------------------------------ primitives

\* Unlimited
Unlimited == [kind |-> "Unlimited"]

UnlimitedReset(l, t) == l

UnlimitedWaitTime(l, t) == None

UnlimitedUse(l, t) == l

\* ConstantRate
ConstantRateReset(l, t) == [l EXCEPT !.last_t = t - l.delay]

\* Faulty variant: the margin shortens the delay.
ConstantRateMarginShortens(rate, marginPct, t) ==
    ConstantRateReset(
        [kind |-> "ConstantRate",
         delay |-> ((100 - marginPct) * TicksPerSec) \div (100 * rate),
         last_t |-> 0], t)

ConstantRate(rate, marginPct, t) ==
    ConstantRateReset(
        [kind |-> "ConstantRate",
         delay |-> ((100 + marginPct) * TicksPerSec) \div (100 * rate),
         last_t |-> 0], t)

\* Faulty variant: a wait of zero is returned as a number.
ConstantRateWaitTimeZero(l, t) ==
    LET w == l.last_t + l.delay - t
    IN  IF w >= 0 THEN w ELSE None

ConstantRateWaitTime(l, t) ==
    LET w == l.last_t + l.delay - t
    IN  IF w > 0 THEN w ELSE None

\* Faulty variant: a use is scheduled after the previous one instead of at the timer
\* value, so a tight loop of use() piles up a backlog.
ConstantRateUseBacklog(l, t) == [l EXCEPT !.last_t = Max(@ + l.delay, t)]

ConstantRateUse(l, t) == [l EXCEPT !.last_t = t]

\* LeakyBucket
LeakyBucketReset(l, t) == [l EXCEPT !.last_v = 0, !.last_t = t]

LeakyBucket(rate, burst, marginPct, t) ==
    LeakyBucketReset(
        [kind |-> "LeakyBucket",
         rate |-> (rate * (100 - marginPct) * LevelDen) \div (100 * TicksPerSec),
         burst |-> (burst * (100 - marginPct) * LevelDen) \div 100,
         last_v |-> 0,
         last_t |-> 0], t)

Current(l, t) == Max(0, l.last_v - l.rate * (t - l.last_t))

\* Faulty variant: wait_time leaves no room for the request itself.
LeakyBucketWaitTimeNoRoom(l, t) ==
    LET over == Current(l, t) - l.burst
    IN  IF over >= 0 THEN over \div l.rate ELSE None

LeakyBucketWaitTime(l, t) ==
    LET over == Current(l, t) + LevelDen - l.burst
    IN  IF over >= 0 THEN over \div l.rate ELSE None

\* Faulty variant: the level is not clamped to the capacity.
LeakyBucketUseUnclamped(l, t) ==
    [l EXCEPT !.last_v = Current(l, t) + LevelDen, !.last_t = t]

LeakyBucketUse(l, t) ==
    [l EXCEPT !.last_v = Min(Current(l, t) + LevelDen, l.burst), !.last_t = t]

\* Windowed (window is given in ticks)
\* Faulty variant: reset() ends the window and keeps its count.
WindowedResetKeepsCount(l, t) == [l EXCEPT !.window_end = t]

WindowedReset(l, t) == [l EXCEPT !.window_end = t, !.window_count = 0]

Windowed(max, window, marginPct, t) ==
    WindowedReset(
        [kind |-> "Windowed",
         max |-> max,
         window |-> (window * (100 + marginPct)) \div 100,
         window_end |-> 0,
         window_count |-> 0], t)

\* Faulty variant: the window is taken as full one request too late.
WindowedWaitTimeOffByOne(l, t) ==
    LET w == l.window_end - t
    IN  IF w > 0 /\ l.window_count > l.max THEN w ELSE None

\* Faulty variant: a full window makes the caller wait a whole window.
WindowedWaitTimeWholeWindow(l, t) ==
    LET w == l.window_end - t
    IN  IF w > 0 /\ l.window_count >= l.max THEN l.window ELSE None

WindowedWaitTime(l, t) ==
    LET w == l.window_end - t
    IN  IF w > 0 /\ l.window_count >= l.max THEN w ELSE None

\* Faulty variant: a new window keeps counting from the old count.
WindowedUseKeepsCount(l, t) ==
    IF t >= l.window_end
    THEN [l EXCEPT !.window_end = t + l.window, !.window_count = @ + 1]
    ELSE [l EXCEPT !.window_count = @ + 1]

\* Faulty variant: a use() exactly at window_end still counts in the old
\* window.
WindowedUseLateOpening(l, t) ==
    IF t > l.window_end
    THEN [l EXCEPT !.window_end = t + l.window, !.window_count = 1]
    ELSE [l EXCEPT !.window_count = @ + 1]

WindowedUse(l, t) ==
    IF t >= l.window_end
    THEN [l EXCEPT !.window_end = t + l.window, !.window_count = 1]
    ELSE [l EXCEPT !.window_count = @ + 1]

\* ----------------------------------------------------------- combinators

Any(children) == [kind |-> "Any", children |-> children]

Synced(inner) == [kind |-> "Synced", inner |-> inner]

synced(l) == IF l.kind = "Synced" THEN l ELSE Synced(l)

\* Faulty variant: | nests its operands.
OrNested(a, b) == Any(<<a, b>>)

\* Limiter.__or__: a | b
Or(a, b) ==
    IF a.kind = "Any" /\ b.kind = "Any" THEN Any(a.children \o b.children)
    ELSE IF a.kind = "Any" THEN Any(a.children \o <<b>>)
    ELSE IF b.kind = "Any" THEN Any(<<a>> \o b.children)
    ELSE Any(<<a, b>>)

RECURSIVE Reset(_, _)
RECURSIVE WaitTime(_, _)
RECURSIVE Use(_, _)
RECURSIVE WaitTimeEffect(_, _)

AnyReset(l, t) ==
    [l EXCEPT !.children = [i \in DOMAIN @ |-> Reset(@[i], t)]]

\* The loop of Any.wait_time from child i on, `w` being the minimum so far.
RECURSIVE AnyWaitLoop(_, _, _, _)
AnyWaitLoop(children, i, w, t) ==
    IF i > Len(children) THEN w
    ELSE LET cwait == WaitTime(children[i], t)
         IN  IF cwait = None THEN None
             ELSE AnyWaitLoop(children, i + 1, IF cwait < w THEN cwait ELSE w, t)

\* Faulty variant: Any.wait_time returns the wait of its first child.
AnyWaitTimeFirstChild(l, t) == WaitTime(l.children[1], t)

AnyWaitTime(l, t) == AnyWaitLoop(l.children, 1, Inf, t)

\* Faulty variant: Any.use leaves out the children that are not ready.
AnyUseOnlyReady(l, t) ==
    [l EXCEPT !.children =
        [i \in DOMAIN @ |-> IF WaitTime(@[i], t) = None THEN Use(@[i], t) ELSE @[i]]]

AnyUse(l, t) ==
    [l EXCEPT !.children = [i \in DOMAIN @ |-> Use(@[i], t)]]

\* The children Any.wait_time reads: all up to the first that returns None.
AnyRead(l, t) ==
    {i \in DOMAIN l.children :
        \A j \in 1..(i - 1) : WaitTime(l.children[j], t) # None}

SyncedReset(l, t) == [l EXCEPT !.inner = Reset(@, t)]

\* Faulty variant: Synced.wait_time does not ask the limiter it wraps.
SyncedWaitTimeNever(l, t) == None

SyncedWaitTime(l, t) == WaitTime(l.inner, t)

SyncedUse(l, t) == [l EXCEPT !.inner = Use(@, t)]

Reset(l, t) ==
    CASE l.kind = "Unlimited" -> UnlimitedReset(l, t)
      [] l.kind = "ConstantRate" -> ConstantRateReset(l, t)
      [] l.kind = "LeakyBucket" -> LeakyBucketReset(l, t)
      [] l.kind = "Windowed" -> WindowedReset(l, t)
      [] l.kind = "Any" -> AnyReset(l, t)
      [] l.kind = "Synced" -> SyncedReset(l, t)

WaitTime(l, t) ==
    CASE l.kind = "Unlimited" -> UnlimitedWaitTime(l, t)
      [] l.kind = "ConstantRate" -> ConstantRateWaitTime(l, t)
      [] l.kind = "LeakyBucket" -> LeakyBucketWaitTime(l, t)
      [] l.kind = "Windowed" -> WindowedWaitTime(l, t)
      [] l.kind = "Any" -> AnyWaitTime(l, t)
      [] l.kind = "Synced" -> SyncedWaitTime(l, t)

Use(l, t) ==
    CASE l.kind = "Unlimited" -> UnlimitedUse(l, t)
      [] l.kind = "ConstantRate" -> ConstantRateUse(l, t)
      [] l.kind = "LeakyBucket" -> LeakyBucketUse(l, t)
      [] l.kind = "Windowed" -> WindowedUse(l, t)
      [] l.kind = "Any" -> AnyUse(l, t)
      [] l.kind = "Synced" -> SyncedUse(l, t)

\* Faulty variant: LeakyBucket.wait_time stores the decayed level it computed.
PrimitiveWaitTimeEffectCaching(l, t) ==
    IF l.kind = "LeakyBucket"
    THEN [l EXCEPT !.last_v = Current(l, t), !.last_t = t]
    ELSE l

\* What reading wait_time assigns to a primitive's fields: nothing.
PrimitiveWaitTimeEffect(l, t) == l

\* The limiter after wait_time was read on it at time t.
WaitTimeEffect(l, t) ==
    CASE l.kind = "Any" ->
            [l EXCEPT !.children =
                [i \in DOMAIN @ |->
                    IF i \in AnyRead(l, t) THEN WaitTimeEffect(@[i], t) ELSE @[i]]]
      [] l.kind = "Synced" -> [l EXCEPT !.inner = WaitTimeEffect(@, t)]
      [] OTHER -> PrimitiveWaitTimeEffect(l, t)

\* What use() and reset() do when made on each primitive of the tree itself,
\* one call after the other.
RECURSIVE DirectUse(_, _)
DirectUse(l, t) ==
    CASE l.kind = "Unlimited" -> UnlimitedUse(l, t)
      [] l.kind = "ConstantRate" -> ConstantRateUse(l, t)
      [] l.kind = "LeakyBucket" -> LeakyBucketUse(l, t)
      [] l.kind = "Windowed" -> WindowedUse(l, t)
      [] l.kind = "Any" ->
            [l EXCEPT !.children = [i \in DOMAIN @ |-> DirectUse(@[i], t)]]
      [] l.kind = "Synced" -> [l EXCEPT !.inner = DirectUse(@, t)]

RECURSIVE DirectReset(_, _)
DirectReset(l, t) ==
    CASE l.kind = "Unlimited" -> UnlimitedReset(l, t)
      [] l.kind = "ConstantRate" -> ConstantRateReset(l, t)
      [] l.kind = "LeakyBucket" -> LeakyBucketReset(l, t)
      [] l.kind = "Windowed" -> WindowedReset(l, t)
      [] l.kind = "Any" ->
            [l EXCEPT !.children = [i \in DOMAIN @ |-> DirectReset(@[i], t)]]
      [] l.kind = "Synced" -> [l EXCEPT !.inner = DirectReset(@, t)]

\* -------------------------------------------------------------- callers

Threads == DOMAIN pc

NoCall == [reads |-> 0, slept |-> <<>>, uses |-> 0, seen |-> 0]

\* No inner use() in progress.
NoLocal == [at |-> 0, val |-> Unlimited]

\* No _call_json in progress.  attempt tells the first do_request() (line
\* 207) from the retry (line 222); limits, requests, first, firstHeader and
\* slept are the history of the call; retried counts the calls so far whose
\* first answer was 429.
NoHttp ==
    [pc |-> "idle", attempt |-> 0, limits |-> 0, requests |-> 0, first |-> 0,
     firstHeader |-> "", status |-> 0, json |-> FALSE, header |-> "",
     retry |-> 0, slept |-> <<>>, outcome |-> "", retried |-> 0]

NoRead == [at |-> 0, ret |-> None, fresh |-> FALSE]

\* limit_iter not called yet.  src is the source, pulled the items taken from
\* it, limits the limit() calls completed, yielded the items passed on.
NoIter ==
    [pc |-> "none", src |-> <<>>, pulled |-> 0, limits |-> 0, yielded |-> <<>>]

\* No Paged made yet.  total is the number of items the server holds; i,
\* page, pageoffset, pagemax and data are the locals of Paged.__iter__, k the
\* position of `yield from` in the slice; requested and yielded are the
\* history of the iteration.
NoPaged ==
    [pc |-> "none", total |-> 0, bound_high |-> None, i |-> 0, page |-> 0,
     pageoffset |-> 0, pagemax |-> 0, data |-> <<>>, k |-> 0,
     requested |-> <<>>, yielded |-> <<>>]

\* Limiter l is called by `threads`; s takes the same calls directly.
InitBoth(l, s, threads) ==
    /\ now = 0
    /\ lim = l
    /\ lock = 0
    /\ pc = [t \in threads |-> "idle"]
    /\ wait = [t \in threads |-> None]
    /\ caller = [t \in threads |-> "none"]
    /\ wake = [t \in threads |-> 0]
    /\ log = <<>>
    /\ greedy = FALSE
    /\ call = [t \in threads |-> NoCall]
    /\ lastRead = NoRead
    /\ idles = 0
    /\ local = [t \in threads |-> NoLocal]
    /\ shadow = s
    /\ http = NoHttp
    /\ iter = NoIter
    /\ paged = NoPaged

InitWith(l, threads) == InitBoth(l, l, threads)

\* Faulty variant: limit() never sleeps.
AfterReadNoSleep(w) == "limit_use"

\* Limiter.limit, line 38: where limit() goes after reading wait_time.
AfterRead(w) == IF w # None THEN "limit_sleep" ELSE "limit_use"

\* Faulty variant: limit() reads wait_time again after sleeping.
AfterSleepRecheck == "limit_read"

\* Limiter.limit, lines 39-40: where limit() goes when time.sleep returns.
AfterSleep == "limit_use"

\* Where a thread goes when the use() it called returns.
ReturnPc(t) == IF caller[t] = "limit" THEN "limit_done" ELSE "idle"

\* A use() that read the timer value `at` is recorded on the limiter.
Record(t, newLim, at) ==
    /\ lim' = newLim
    /\ log' = Append(log, at)
    /\ greedy' = (greedy \/ WaitTime(lim, at) # None)
    /\ call' = IF caller[t] = "limit" THEN [call EXCEPT ![t].uses = @ + 1] ELSE call
    /\ lastRead' = NoRead

\* Faulty variant: the lock is not waited for.
LockFreeAlways == TRUE

\* Synced.use / Synced.reset, `with self._lock:` -- the lock can be taken.
LockFree == lock = 0

\* Faulty variant: the thread keeps the lock when it leaves the with block.
AfterWithKeepsLock(t) == t

\* Synced.use / Synced.reset: the lock once `with self._lock:` is left.
AfterWith(t) == 0

\* self.use() is called by thread t: Synced.use takes the lock first, every
\* other limiter's use() runs to its end.
EnterUse(t) ==
    IF lim.kind = "Synced"
    THEN /\ LockFree
         /\ lock' = t
         /\ pc' = [pc EXCEPT ![t] = "in_use"]
         /\ UNCHANGED <<lim, log, greedy, call, lastRead, shadow>>
    ELSE /\ Record(t, Use(lim, now), now)
         /\ shadow' = DirectUse(shadow, now)
         /\ pc' = [pc EXCEPT ![t] = ReturnPc(t)]
         /\ UNCHANGED lock

\* Calls of limit() or use() that have not recorded their use yet.
Pending ==
    Cardinality({t \in Threads :
        pc[t] \in {"limit_read", "limit_sleep", "sleeping", "limit_use", "in_use",
                   "use_write"}})

\* limit() is entered by thread t.
EnterLimit(t) ==
    /\ pc[t] = "idle"
    /\ pc' = [pc EXCEPT ![t] = "limit_read"]
    /\ caller' = [caller EXCEPT ![t] = "limit"]
    /\ call' = [call EXCEPT ![t] = NoCall]
    /\ UNCHANGED <<now, lim, lock, wait, wake, log, greedy, lastRead, idles,
                   local, shadow>>

\* limit() is called by a caller that makes at most cap uses.
CallLimit(t, cap) ==
    /\ Len(log) + Pending < cap
    /\ EnterLimit(t)
    /\ UNCHANGED <<http, iter, paged>>

\* limit(), line 37: wait = self.wait_time
LimitRead(t) ==
    /\ pc[t] = "limit_read"
    /\ wait' = [wait EXCEPT ![t] = WaitTime(lim, now)]
    /\ lim' = WaitTimeEffect(lim, now)
    /\ call' = [call EXCEPT ![t].reads = @ + 1, ![t].seen = Len(log)]
    /\ pc' = [pc EXCEPT ![t] = AfterRead(WaitTime(lim, now))]
    /\ UNCHANGED <<now, lock, caller, wake, log, greedy, lastRead, idles,
                   local, shadow, http,
                   iter, paged>>

\* time.sleep(secs) raises OverflowError for float('inf').
SleepRaises(secs) == secs >= Inf

\* limit(), line 39: time.sleep(wait) is called; when it raises, limit() is
\* left by the exception and the thread never reaches use().
LimitSleep(t) ==
    /\ pc[t] = "limit_sleep"
    /\ wake' = IF SleepRaises(wait[t]) THEN wake
               ELSE [wake EXCEPT ![t] = now + wait[t]]
    /\ call' = IF SleepRaises(wait[t]) THEN call
               ELSE [call EXCEPT ![t].slept = Append(@, wait[t])]
    /\ pc' = [pc EXCEPT ![t] = IF SleepRaises(wait[t]) THEN "raised"
                                ELSE "sleeping"]
    /\ UNCHANGED <<now, lim, lock, wait, caller, log, greedy, lastRead, idles,
                   local, shadow, http,
                   iter, paged>>

\* time.sleep returns: the timer has reached the end of the earliest sleep.
Wake(t) ==
    /\ pc[t] = "sleeping"
    /\ \A u \in Threads : pc[u] = "sleeping" => wake[t] <= wake[u]
    /\ now' = Max(now, wake[t])
    /\ wake' = [wake EXCEPT ![t] = 0]
    /\ pc' = [pc EXCEPT ![t] = AfterSleep]
    /\ lastRead' = IF now' = now THEN lastRead ELSE NoRead
    /\ UNCHANGED <<lim, lock, wait, caller, log, greedy, call, idles,
                   local, shadow, http,
                   iter, paged>>

\* limit(), line 40: self.use()
LimitUse(t) ==
    /\ pc[t] = "limit_use"
    /\ EnterUse(t)
    /\ UNCHANGED <<now, wait, caller, wake, idles,
                   local, http,
                   iter, paged>>

\* limit() returns to its caller.
ExitLimit(t) ==
    /\ pc[t] = "limit_done"
    /\ pc' = [pc EXCEPT ![t] = "idle"]
    /\ wait' = [wait EXCEPT ![t] = None]
    /\ caller' = [caller EXCEPT ![t] = "none"]
    /\ call' = [call EXCEPT ![t] = NoCall]
    /\ UNCHANGED <<now, lim, lock, wake, log, greedy, lastRead, idles,
                   local, shadow>>

\* limit() returns.
LimitReturn(t) ==
    /\ ExitLimit(t)
    /\ UNCHANGED <<http, iter, paged>>

\* use() called directly, whatever wait_time says.
RawUse(t, cap) ==
    /\ pc[t] = "idle"
    /\ Len(log) + Pending < cap
    /\ EnterUse(t)
    /\ UNCHANGED <<now, wait, caller, wake, idles,
                   local, http,
                   iter, paged>>

\* Synced.use, line 223: self._inner.use() under the lock reads the timer
\* and the fields of the inner limiter and computes their new values
SyncedUseInner(t) ==
    /\ pc[t] = "in_use"
    /\ local' = [local EXCEPT ![t] = [at |-> now, val |-> SyncedUse(lim, now)]]
    /\ shadow' = DirectUse(shadow, now)
    /\ pc' = [pc EXCEPT ![t] = "use_write"]
    /\ UNCHANGED <<now, lim, lock, wait, caller, wake, log, greedy, call,
                   lastRead, idles, http,
                   iter, paged>>

\* Synced.use, line 223: self._inner.use() stores what it computed
SyncedUseWrite(t) ==
    /\ pc[t] = "use_write"
    /\ Record(t, local[t].val, local[t].at)
    /\ local' = [local EXCEPT ![t] = NoLocal]
    /\ pc' = [pc EXCEPT ![t] = "use_release"]
    /\ UNCHANGED <<now, lock, wait, caller, wake, idles, shadow, http,
                   iter, paged>>

\* Synced.use: the with block is left and the lock released
SyncedUseRelease(t) ==
    /\ pc[t] = "use_release"
    /\ lock' = AfterWith(t)
    /\ pc' = [pc EXCEPT ![t] = ReturnPc(t)]
    /\ UNCHANGED <<now, lim, wait, caller, wake, log, greedy, call, lastRead, idles,
                   local, shadow, http,
                   iter, paged>>

\* reset() called directly: Synced.reset takes the lock first.
RawReset(t) ==
    /\ pc[t] = "idle"
    /\ IF lim.kind = "Synced"
       THEN /\ LockFree
            /\ lock' = t
            /\ pc' = [pc EXCEPT ![t] = "in_reset"]
            /\ UNCHANGED <<lim, greedy, lastRead, shadow>>
       ELSE /\ lim' = Reset(lim, now)
            /\ shadow' = DirectReset(shadow, now)
            /\ greedy' = FALSE
            /\ lastRead' = NoRead
            /\ UNCHANGED <<lock, pc>>
    /\ UNCHANGED <<now, wait, caller, wake, log, call, idles,
                   local, http,
                   iter, paged>>

\* Synced.reset, line 215: self._inner.reset() under the lock
SyncedResetInner(t) ==
    /\ pc[t] = "in_reset"
    /\ lim' = SyncedReset(lim, now)
    /\ shadow' = DirectReset(shadow, now)
    /\ greedy' = FALSE
    /\ lastRead' = NoRead
    /\ pc' = [pc EXCEPT ![t] = "reset_release"]
    /\ UNCHANGED <<now, lock, wait, caller, wake, log, call, idles,
                   local, http,
                   iter, paged>>

\* Synced.reset: the with block is left and the lock released
SyncedResetRelease(t) ==
    /\ pc[t] = "reset_release"
    /\ lock' = AfterWith(t)
    /\ pc' = [pc EXCEPT ![t] = "idle"]
    /\ UNCHANGED <<now, lim, wait, caller, wake, log, greedy, call, lastRead, idles,
                   local, shadow, http,
                   iter, paged>>

\* wait_time read directly.
ReadWaitTime(t) ==
    /\ pc[t] = "idle"
    /\ lim' = WaitTimeEffect(lim, now)
    /\ lastRead' = [at |-> now, ret |-> WaitTime(lim, now), fresh |-> TRUE]
    /\ UNCHANGED <<now, lock, pc, wait, caller, wake, log, greedy, call, idles,
                   local, shadow, http,
                   iter, paged>>

\* The timer advances by d while no sleep ends.
Advance(d, maxT) ==
    /\ now + d <= maxT
    /\ \A u \in Threads : pc[u] = "sleeping" => now + d <= wake[u]
    /\ now' = now + d
    /\ lastRead' = NoRead
    /\ UNCHANGED <<lim, lock, pc, wait, caller, wake, log, greedy, call, idles,
                   local, shadow, http,
                   iter, paged>>

\* ------------------------------------------------- limiters explored

\* The limiters explored, constructed at timer value t.
ConfigsAt(t) ==
    { Unlimited,
      ConstantRate(20, 0, t),
      ConstantRate(20, 50, t),
      LeakyBucket(20, 2, 0, t),
      LeakyBucket(20, 2, 50, t),
      LeakyBucket(20, 0, 0, t),
      Windowed(2, 4, 0, t),
      Windowed(2, 4, 50, t),
      Any(<<ConstantRate(20, 50, t), Windowed(2, 4, 0, t)>>),
      synced(Any(<<ConstantRate(20, 50, t), Windowed(2, 4, 0, t)>>)) }

Configs == ConfigsAt(0)

\* One caller making any sequence of use(), reset() and wait_time reads while
\* the timer advances.
Init == \E l \in Configs : InitWith(l, {1})

Next ==
    \/ \E t \in Threads : RawUse(t, MaxUses)
    \/ \E t \in Threads : SyncedUseInner(t)
    \/ \E t \in Threads : SyncedUseWrite(t)
    \/ \E t \in Threads : SyncedUseRelease(t)
    \/ \E t \in Threads : RawReset(t)
    \/ \E t \in Threads : SyncedResetInner(t)
    \/ \E t \in Threads : SyncedResetRelease(t)
    \/ \E t \in Threads : ReadWaitTime(t)
    \/ \E d \in 1..MaxStep : Advance(d, MaxTime)

Spec == Init /\ [][Next]_vars

\* One caller that only ever calls limit().
NextLimit ==
    \/ \E t \in Threads : CallLimit(t, MaxUses)
    \/ \E t \in Threads : LimitRead(t)
    \/ \E t \in Threads : LimitSleep(t)
    \/ \E t \in Threads : Wake(t)
    \/ \E t \in Threads : LimitUse(t)
    \/ \E t \in Threads : SyncedUseInner(t)
    \/ \E t \in Threads : SyncedUseWrite(t)
    \/ \E t \in Threads : SyncedUseRelease(t)
    \/ \E t \in Threads : LimitReturn(t)
    \/ \E d \in 1..MaxStep : Advance(d, MaxTime)

SpecLimit == Init /\ [][NextLimit]_vars

\* The composite Backend.__init__ builds.
ProdRate == 2           \* requests per second
ProdMax == 30           \* requests per window
ProdWindowSec == 60     \* window, seconds
ProdMarginPct == 5      \* margin=0.05

ProdLimit ==
    synced(Any(<<ConstantRate(ProdRate, ProdMarginPct, 0),
                 Windowed(ProdMax, ProdWindowSec * TicksPerSec, ProdMarginPct, 0)>>))

\* The caller does something else between two limit() calls.
Idle(d) ==
    /\ \A t \in Threads : pc[t] = "idle"
    /\ idles < MaxIdles
    /\ idles' = idles + 1
    /\ now' = now + d
    /\ lastRead' = NoRead
    /\ UNCHANGED <<lim, lock, pc, wait, caller, wake, log, greedy, call,
                   local, shadow, http,
                   iter, paged>>

\* Idle periods tried: a tick, the constant-rate delay, the window.
ProdIdles == {1, ProdLimit.inner.children[1].delay, ProdLimit.inner.children[2].window}

InitProd == InitWith(ProdLimit, {1})

\* The backend's limiter driven by one caller that only ever calls limit().
NextProd ==
    \/ \E t \in Threads : CallLimit(t, MaxUsesProd)
    \/ \E t \in Threads : LimitRead(t)
    \/ \E t \in Threads : LimitSleep(t)
    \/ \E t \in Threads : Wake(t)
    \/ \E t \in Threads : LimitUse(t)
    \/ \E t \in Threads : SyncedUseInner(t)
    \/ \E t \in Threads : SyncedUseWrite(t)
    \/ \E t \in Threads : SyncedUseRelease(t)
    \/ \E t \in Threads : LimitReturn(t)
    \/ \E d \in ProdIdles : Idle(d)

SpecProd == InitProd /\ [][NextProd]_vars

\* Concurrent callers of limit(), use() and reset() on a Synced limiter.
SyncConfigs ==
    { synced(ConstantRate(20, 0, 0)),
      synced(Windowed(2, 4, 0, 0)) }

InitSync == \E l \in SyncConfigs : InitWith(l, 1..NThreads)

NextSync ==
    \/ \E t \in Threads : CallLimit(t, MaxUsesSync)
    \/ \E t \in Threads : LimitRead(t)
    \/ \E t \in Threads : LimitSleep(t)
    \/ \E t \in Threads : Wake(t)
    \/ \E t \in Threads : LimitUse(t)
    \/ \E t \in Threads : LimitReturn(t)
    \/ \E t \in Threads : RawUse(t, MaxUsesSync)
    \/ \E t \in Threads : SyncedUseInner(t)
    \/ \E t \in Threads : SyncedUseWrite(t)
    \/ \E t \in Threads : SyncedUseRelease(t)
    \/ \E t \in Threads : RawReset(t)
    \/ \E t \in Threads : SyncedResetInner(t)
    \/ \E t \in Threads : SyncedResetRelease(t)
    \/ \E d \in 1..MaxStep : Advance(d, MaxTimeSync)

SpecSync == InitSync /\ [][NextSync]_vars

\* ------------------------------------------------- Backend._call_json

\* r.status_code of the answers tried.
Statuses == {200, 204, 404, 429, 500}

\* The retry-after header of the answers tried: absent, a number of seconds,
\* an HTTP date, a negative number.
Headers == {"missing", "1", "Fri, 01 Jan 2027 00:00:00 GMT", "-1"}

\* r.headers.get('retry-after', '2')
HeaderGet(h) == IF h = "missing" THEN "2" ELSE h

\* float(retrystr): the number, or ok = FALSE when float() raises.
Float(str) ==
    CASE str = "1" -> [ok |-> TRUE, val |-> 1]
      [] str = "2" -> [ok |-> TRUE, val |-> 2]
      [] str = "-1" -> [ok |-> TRUE, val |-> -1]
      [] OTHER -> [ok |-> FALSE, val |-> 0]

\* _call_json, lines 213-218: the seconds to wait before the retry.
RetrySeconds(h) ==
    LET f == Float(HeaderGet(h))
    IN  IF f.ok THEN f.val ELSE 2

\* _call_json, lines 224-252: what the call makes of the answer it kept.
Outcome(status, json) ==
    IF status = 204 THEN "NoContentError"
    ELSE IF ~json THEN "ParseError"
    ELSE IF 200 <= status /\ status < 300 THEN "json"
    ELSE IF 400 <= status /\ status < 500 THEN "ClientError"
    ELSE "ServerError"

\* Faulty variant: the retry sends its request without calling limit().
AfterRetrySleepNoLimit == "request"

\* _call_json, line 222: r = do_request() after the sleep.
AfterRetrySleep == "do_request"

\* _call_json is called.
CallJson ==
    /\ http.pc = "idle"
    /\ Len(log) + 2 <= MaxUsesProd
    /\ http' = [NoHttp EXCEPT !.pc = "do_request", !.attempt = 1,
                              !.retried = http.retried]
    /\ UNCHANGED <<now, lim, lock, pc, wait, caller, wake, log, greedy, call,
                   lastRead, idles, local, shadow, iter, paged>>

\* do_request, line 204: self._limit.limit() is called
DoRequestLimit(t) ==
    /\ http.pc = "do_request"
    /\ EnterLimit(t)
    /\ http' = [http EXCEPT !.pc = "limiting"]
    /\ UNCHANGED <<iter, paged>>

\* do_request, line 204: self._limit.limit() returns
DoRequestLimitReturns(t) ==
    /\ http.pc = "limiting"
    /\ ExitLimit(t)
    /\ http' = [http EXCEPT !.pc = "request", !.limits = @ + 1]
    /\ UNCHANGED <<iter, paged>>

\* do_request, line 205: the request is sent and the server answers
DoRequestSend(status, json, header) ==
    /\ http.pc = "request"
    /\ (status = 429 /\ http.attempt = 1) => http.retried < MaxRetried
    /\ status # 429 => header = "missing"
    /\ http' = [http EXCEPT
            !.pc = "response",
            !.requests = @ + 1,
            !.status = status,
            !.json = json,
            !.header = header,
            !.first = IF http.requests = 0 THEN status ELSE @,
            !.firstHeader = IF http.requests = 0 THEN header ELSE @,
            !.retried = IF status = 429 /\ http.attempt = 1 THEN @ + 1 ELSE @]
    /\ UNCHANGED <<now, lim, lock, pc, wait, caller, wake, log, greedy, call,
                   lastRead, idles, local, shadow, iter, paged>>

\* _call_json, lines 210-218 and 224-252: the first answer is 429 and the
\* retry-after header is parsed, or the answer is returned or raised
HandleResponse ==
    /\ http.pc = "response"
    /\ IF http.attempt = 1 /\ http.status = 429
       THEN http' = [http EXCEPT !.pc = "retry_sleep",
                                 !.retry = RetrySeconds(http.header)]
       ELSE http' = [http EXCEPT !.pc = "done",
                                 !.outcome = Outcome(http.status, http.json)]
    /\ UNCHANGED <<now, lim, lock, pc, wait, caller, wake, log, greedy, call,
                   lastRead, idles, local, shadow, iter, paged>>

\* _call_json, line 221: time.sleep(retry), which raises ValueError for a
\* negative argument
RetrySleep ==
    /\ http.pc = "retry_sleep"
    /\ IF http.retry < 0
       THEN /\ http' = [http EXCEPT !.pc = "done", !.outcome = "ValueError"]
            /\ UNCHANGED <<now, lastRead>>
       ELSE /\ http' = [http EXCEPT !.pc = AfterRetrySleep,
                                    !.attempt = 2,
                                    !.slept = Append(@, http.retry)]
            /\ now' = now + http.retry * TicksPerSec
            /\ lastRead' = NoRead
    /\ UNCHANGED <<lim, lock, pc, wait, caller, wake, log, greedy, call,
                   idles, local, shadow, iter, paged>>

\* _call_json returns or raises.
CallJsonReturns ==
    /\ http.pc = "done"
    /\ http' = [NoHttp EXCEPT !.retried = http.retried]
    /\ UNCHANGED <<now, lim, lock, pc, wait, caller, wake, log, greedy, call,
                   lastRead, idles, local, shadow, iter, paged>>

InitBackend == InitWith(ProdLimit, {1})

\* One caller of _call_json, whatever the server answers.
NextBackend ==
    \/ CallJson
    \/ \E t \in Threads : DoRequestLimit(t)
    \/ \E t \in Threads : LimitRead(t)
    \/ \E t \in Threads : LimitSleep(t)
    \/ \E t \in Threads : Wake(t)
    \/ \E t \in Threads : LimitUse(t)
    \/ \E t \in Threads : SyncedUseInner(t)
    \/ \E t \in Threads : SyncedUseWrite(t)
    \/ \E t \in Threads : SyncedUseRelease(t)
    \/ \E t \in Threads : DoRequestLimitReturns(t)
    \/ \E status \in Statuses, json \in BOOLEAN, header \in Headers :
            DoRequestSend(status, json, header)
    \/ HandleResponse
    \/ RetrySleep
    \/ CallJsonReturns

SpecBackend == InitBackend /\ [][NextBackend]_vars

\* Concurrent callers that only ever call limit() on a Synced limiter.
RaceConfigs ==
    { synced(ConstantRate(20, 0, 0)),
      synced(Windowed(1, 4, 0, 0)) }

InitRace == \E l \in RaceConfigs : InitWith(l, 1..NThreads)

NextRace ==
    \/ \E t \in Threads : CallLimit(t, MaxUsesSync)
    \/ \E t \in Threads : LimitRead(t)
    \/ \E t \in Threads : LimitSleep(t)
    \/ \E t \in Threads : Wake(t)
    \/ \E t \in Threads : LimitUse(t)
    \/ \E t \in Threads : SyncedUseInner(t)
    \/ \E t \in Threads : SyncedUseWrite(t)
    \/ \E t \in Threads : SyncedUseRelease(t)
    \/ \E t \in Threads : LimitReturn(t)
    \/ \E d \in 1..MaxStep : Advance(d, MaxTimeSync)

SpecRace == InitRace /\ [][NextRace]_vars

\* Two primitives that differ in margin only take the same use() and reset()
\* calls at the same timer values: lim has the smaller margin, shadow the
\* larger.
MarginPairs ==
    { <<ConstantRate(20, 0, 0), ConstantRate(20, 50, 0)>>,
      <<LeakyBucket(20, 2, 0, 0), LeakyBucket(20, 2, 50, 0)>>,
      <<Windowed(2, 4, 0, 0), Windowed(2, 4, 50, 0)>> }

InitMargin == \E p \in MarginPairs : InitBoth(p[1], p[2], {1})

NextMargin ==
    \/ \E t \in Threads : RawUse(t, MaxUses)
    \/ \E t \in Threads : RawReset(t)
    \/ \E d \in 1..MaxStep : Advance(d, MaxTime)

SpecMargin == InitMargin /\ [][NextMargin]_vars

\* ConstantRate limiters of 2 requests per second, the timer advancing by
\* tenths of a second.
RateConfigs ==
    { ConstantRate(2, 0, 0),
      ConstantRate(2, 5, 0) }

RateSteps == {TicksPerSec \div 10, (4 * TicksPerSec) \div 10}

InitRate == \E l \in RateConfigs : InitWith(l, {1})

NextRate ==
    \/ \E t \in Threads : RawUse(t, MaxUses)
    \/ \E t \in Threads : RawReset(t)
    \/ \E d \in RateSteps : Advance(d, MaxTimeRate)

SpecRate == InitRate /\ [][NextRate]_vars

\* ------------------------------------------------- Limiter.limit_iter

Items == {"a", "b"}

\* The sources tried: every sequence of at most MaxItems items.
Sources == UNION {[1..n -> Items] : n \in 0..MaxItems}

\* Faulty variant: the item pulled is yielded without a limit() call.
AfterPullNoLimit == "yield"

\* limit_iter, line 45: self.limit() follows the pull of an item.
AfterPull == "limit"

\* limit_iter(it) is called: the generator is made, its body not yet run.
LimitIter(src) ==
    /\ iter.pc = "none"
    /\ iter' = [NoIter EXCEPT !.pc = "suspended", !.src = src]
    /\ UNCHANGED <<now, lim, lock, pc, wait, caller, wake, log, greedy, call,
                   lastRead, idles, local, shadow, http, paged>>

\* The consumer asks the generator for its next item.
IterNext ==
    /\ iter.pc = "suspended"
    /\ iter' = [iter EXCEPT !.pc = "pull"]
    /\ UNCHANGED <<now, lim, lock, pc, wait, caller, wake, log, greedy, call,
                   lastRead, idles, local, shadow, http, paged>>

\* limit_iter, line 44: for x in it -- an item is pulled or the source ends
IterPull ==
    /\ iter.pc = "pull"
    /\ IF iter.pulled < Len(iter.src)
       THEN iter' = [iter EXCEPT !.pulled = @ + 1, !.pc = AfterPull]
       ELSE iter' = [iter EXCEPT !.pc = "exhausted"]
    /\ UNCHANGED <<now, lim, lock, pc, wait, caller, wake, log, greedy, call,
                   lastRead, idles, local, shadow, http, paged>>

\* limit_iter, line 45: self.limit() is called
IterLimit(t) ==
    /\ iter.pc = "limit"
    /\ EnterLimit(t)
    /\ iter' = [iter EXCEPT !.pc = "limiting"]
    /\ UNCHANGED <<http, paged>>

\* limit_iter, line 45: self.limit() returns
IterLimitReturns(t) ==
    /\ iter.pc = "limiting"
    /\ ExitLimit(t)
    /\ iter' = [iter EXCEPT !.pc = "yield", !.limits = @ + 1]
    /\ UNCHANGED <<http, paged>>

\* limit_iter, line 46: yield x
IterYield ==
    /\ iter.pc = "yield"
    /\ iter' = [iter EXCEPT !.yielded = Append(@, iter.src[iter.pulled]),
                            !.pc = "suspended"]
    /\ UNCHANGED <<now, lim, lock, pc, wait, caller, wake, log, greedy, call,
                   lastRead, idles, local, shadow, http, paged>>

IterConfigs ==
    { ConstantRate(20, 50, 0),
      LeakyBucket(20, 2, 50, 0),
      synced(Any(<<ConstantRate(20, 50, 0), Windowed(2, 4, 0, 0)>>)) }

InitIter == \E l \in IterConfigs : InitWith(l, {1})

\* One consumer of one limit_iter generator.
NextIter ==
    \/ \E src \in Sources : LimitIter(src)
    \/ IterNext
    \/ IterPull
    \/ \E t \in Threads : IterLimit(t)
    \/ \E t \in Threads : LimitRead(t)
    \/ \E t \in Threads : LimitSleep(t)
    \/ \E t \in Threads : Wake(t)
    \/ \E t \in Threads : LimitUse(t)
    \/ \E t \in Threads : SyncedUseInner(t)
    \/ \E t \in Threads : SyncedUseWrite(t)
    \/ \E t \in Threads : SyncedUseRelease(t)
    \/ \E t \in Threads : IterLimitReturns(t)
    \/ IterYield
    \/ \E d \in 1..MaxStep : Advance(d, MaxTimeSync)

SpecIter == InitIter /\ [][NextIter]_vars

\* Limiters combined with |, one operand after the other.
Operands ==
    { Unlimited,
      ConstantRate(20, 0, 0),
      Windowed(2, 4, 0, 0),
      Any(<<>>),
      Any(<<ConstantRate(20, 50, 0), Windowed(2, 4, 0, 0)>>),
      synced(Any(<<LeakyBucket(20, 2, 0, 0)>>)) }

\* lim = lim | b
OrRight(b) ==
    /\ Len(Or(lim, b).children) <= MaxChildren
    /\ lim' = Or(lim, b)
    /\ UNCHANGED <<now, lock, pc, wait, caller, wake, log, greedy, call,
                   lastRead, idles, local, shadow, http, iter, paged>>

\* lim = b | lim
OrLeft(b) ==
    /\ Len(Or(b, lim).children) <= MaxChildren
    /\ lim' = Or(b, lim)
    /\ UNCHANGED <<now, lock, pc, wait, caller, wake, log, greedy, call,
                   lastRead, idles, local, shadow, http, iter, paged>>

InitOr == \E l \in Operands : InitWith(l, {1})

NextOr ==
    \/ \E b \in Operands : OrRight(b)
    \/ \E b \in Operands : OrLeft(b)

SpecOr == InitOr /\ [][NextOr]_vars

\* --------------------------------------------------------------- claims

\* Every k+1 successive recorded uses span at least `span` ticks, i.e. no
\* half-open interval of `span` ticks holds more than k recorded uses.
AtMostPer(k, span) ==
    \A i \in 1..(Len(log) - k) : log[i + k] - log[i] >= span

\* Recorded uses that fall in the limiter's current window.
InWindow(l) ==
    {i \in DOMAIN log : l.window_end - l.window <= log[i] /\ log[i] < l.window_end}

\* C1 (as claimed): the backend's composite, driven by one caller that only
\* calls limit(), records no more than 30 uses in any 60 seconds.
C1_AtMostThirtyPerMinute == AtMostPer(ProdMax, ProdWindowSec * TicksPerSec)

\* C2 (as claimed): the backend's composite, driven by one caller that only
\* calls limit(), records consecutive uses at least 0.5 s apart.
C2_HalfSecondApart == AtMostPer(1, TicksPerSec \div ProdRate)

\* C3 (as claimed): for Windowed, window_count <= max whenever
\* now < window_end, whatever use(), reset() and timer advances were made.
C3_CountAtMostMax ==
    (lim.kind = "Windowed" /\ now < lim.window_end)
        => lim.window_count <= lim.max

\* C3 (amended): for Windowed, window_count <= max whenever now < window_end,
\* provided that since the last reset() no use() was made while wait_time
\* was not None.
C3_CountAtMostMaxWhenObeyed ==
    (lim.kind = "Windowed" /\ ~greedy /\ now < lim.window_end)
        => lim.window_count <= lim.max

\* C3 witness: a second window was opened and filled by an obedient caller.
C3_SecondWindowFull ==
    /\ lim.kind = "Windowed"
    /\ ~greedy
    /\ now < lim.window_end
    /\ lim.window_count = lim.max
    /\ Len(log) > lim.max
    /\ log[Len(log) - lim.max] < lim.window_end - lim.window

\* C4 (as claimed): a Windowed limiter driven by limit() alone records at
\* most max uses in any interval of length window.
C4_AtMostMaxPerRollingWindow ==
    lim.kind = "Windowed" => AtMostPer(lim.max, lim.window)

\* C4 (amended): a Windowed limiter driven by limit() alone records at most
\* max uses in each of its own windows [window_end - window, window_end).
C4_AtMostMaxPerOwnWindow ==
    lim.kind = "Windowed" => Cardinality(InWindow(lim)) <= lim.max

\* C4 witness: the limiter's second window holds max recorded uses.
C4_OwnWindowFull ==
    /\ lim.kind = "Windowed"
    /\ Cardinality(InWindow(lim)) = lim.max
    /\ Len(log) > lim.max

\* C5: a ConstantRate limiter driven by limit() alone records consecutive
\* uses at least delay apart.
C5_UsesDelayApart ==
    lim.kind = "ConstantRate" => AtMostPer(1, lim.delay)

\* C5 witness: a use was recorded exactly delay after the previous one, the
\* caller having slept a wait_time shorter than delay.
C5_UseAfterSleep ==
    /\ lim.kind = "ConstantRate"
    /\ Len(log) >= 2
    /\ log[Len(log)] - log[Len(log) - 1] = lim.delay
    /\ \E t \in Threads :
        pc[t] = "limit_done" /\ wait[t] # None /\ wait[t] < lim.delay

\* C6: for LeakyBucket the lazily computed level stays within 0..burst.
C6_LevelWithinBurst ==
    lim.kind = "LeakyBucket"
        => (0 <= Current(lim, now) /\ Current(lim, now) <= lim.burst)

\* C6 witness: uses made back to back hit the clamp of a bucket that holds
\* more than one request, and the level has since decayed below burst.
C6_ClampedThenDecayed ==
    /\ lim.kind = "LeakyBucket"
    /\ lim.burst > LevelDen
    /\ lim.last_v = lim.burst
    /\ greedy
    /\ 0 < Current(lim, now)
    /\ Current(lim, now) < lim.burst

\* A step that reads wait_time.
WaitTimeIsRead == \E t \in Threads : ReadWaitTime(t) \/ LimitRead(t)

\* C7: reading wait_time changes no field of the limiter or of its children,
\* and a second read at the same timer value returns what the first did.
C7_WaitTimeReadsOnly ==
    [][WaitTimeIsRead =>
            /\ lim' = lim
            /\ (lastRead.fresh /\ lastRead.at = now)
                    => lastRead'.ret = lastRead.ret]_vars

\* C7 witness: wait_time of a Synced(Any(...)) limiter that has recorded uses
\* was read and returned a number.
C7_SyncedReadReturnsNumber ==
    /\ lim.kind = "Synced"
    /\ lastRead.fresh
    /\ lastRead.ret # None
    /\ Len(log) > 0

\* C8: however use() is called, wait_time is at most delay for ConstantRate,
\* at most 1/rate for LeakyBucket with burst >= 1, at most window for
\* Windowed.
C8_WaitTimeBounded ==
    /\ lim.kind = "ConstantRate" => WaitTime(lim, now) <= lim.delay
    /\ (lim.kind = "LeakyBucket" /\ lim.burst >= LevelDen)
            => WaitTime(lim, now) <= LevelDen \div lim.rate
    /\ lim.kind = "Windowed" => WaitTime(lim, now) <= lim.window

\* C8 witness: after MaxUses uses, some made while wait_time was not None, a
\* primitive reports the largest wait it can.
C8_LargestWaitAfterGreedyUses ==
    /\ greedy
    /\ Len(log) = MaxUses
    /\ \/ lim.kind = "ConstantRate" /\ WaitTime(lim, now) = lim.delay
       \/ lim.kind = "Windowed" /\ WaitTime(lim, now) = lim.window
       \/ /\ lim.kind = "LeakyBucket"
          /\ lim.burst >= LevelDen
          /\ WaitTime(lim, now) = LevelDen \div lim.rate

\* C9: a limit() call reads wait_time once, calls time.sleep once with the
\* value read when that is not None and not at all when it is None, and
\* calls use() once, after the sleep; nothing is read after the sleep.
C9_LimitReadsSleepsUses ==
    \A t \in Threads :
        /\ pc[t] \in {"limit_sleep", "limit_use"}
            => (call[t].reads = 1 /\ call[t].uses = 0)
        /\ pc[t] = "limit_sleep" => (wait[t] # None /\ call[t].slept = <<>>)
        /\ pc[t] = "sleeping"
            => (call[t].reads = 1 /\ call[t].slept = <<wait[t]>> /\ call[t].uses = 0)
        /\ pc[t] \in {"limit_use", "limit_done"}
            => call[t].slept = (IF wait[t] # None THEN <<wait[t]>> ELSE <<>>)
        /\ pc[t] = "limit_done" => (call[t].reads = 1 /\ call[t].uses = 1)

\* C9 witness: a limit() call that slept has recorded its use.
C9_LimitSleptAndUsed ==
    \E t \in Threads :
        pc[t] = "limit_done" /\ wait[t] # None /\ log # <<>> /\ log[Len(log)] = now

\* C10: at most one thread at a time executes the use() or reset() of the
\* limiter a Synced wraps.
C10_OneThreadInside ==
    Cardinality({t \in Threads : pc[t] \in {"in_use", "use_write", "in_reset"}}) <= 1

\* C10 witness: one thread holds the lock and is inside the wrapped use()
\* while another has reached the use() of its limit().
C10_InsideWhileOtherArrives ==
    \E t, u \in Threads :
        /\ t # u
        /\ pc[t] = "in_use"
        /\ pc[u] = "limit_use"
        /\ lock = t

\* No thread is between the read and the write of an inner use().
NoUseInProgress == \A t \in Threads : pc[t] # "use_write"

\* C11: threads calling use() concurrently on a Synced limiter whose inner
\* use() reads and then writes lose no update: whenever no inner use() is
\* in progress the limiter is in the state that the calls made so far give
\* when applied one after the other in the order they held the lock.
C11_NoLostUpdate == NoUseInProgress => lim = shadow

\* C11 witness: every thread is inside limit() at once with its use()
\* finished, and the wrapped Windowed has counted each of them in one window.
C11_EveryUseCounted ==
    /\ lim.inner.kind = "Windowed"
    /\ \A t \in Threads : pc[t] = "limit_done"
    /\ Len(log) = Cardinality(Threads)
    /\ lim.inner.window_count = Cardinality(Threads)
    /\ lim = shadow

\* The use() that thread t is about to store breaks the policy of the
\* limiter the Synced wraps: it comes less than delay after the last
\* recorded use, or it makes more than max uses in the current window.
Overshoots(t) ==
    \/ /\ lim.inner.kind = "ConstantRate"
       /\ log # <<>>
       /\ local[t].at - log[Len(log)] < lim.inner.delay
    \/ /\ lim.inner.kind = "Windowed"
       /\ local[t].val.inner.window_count > lim.inner.max

\* C12: Synced does not make limit() atomic.  Two threads can both read
\* wait_time = None before either calls use() and then both use(), so that
\* two uses are recorded closer together than the wrapped limiter allows
\* (the witness); and a use() made by limit() overshoots only in that way,
\* when another use was recorded between its wait_time read and its use().
C12_OvershootOnlyAfterStaleRead ==
    [][\A t \in Threads :
            (pc[t] = "use_write" /\ pc'[t] = "use_release" /\ Overshoots(t))
                => call[t].seen < Len(log)]_vars

\* C12 witness: both threads read wait_time = None before any use was
\* recorded, both have used, and the two uses of the wrapped ConstantRate
\* are less than delay apart.
C12_BothReadNoneBothUsed ==
    /\ lim.inner.kind = "ConstantRate"
    /\ Len(log) = 2
    /\ log[2] - log[1] < lim.inner.delay
    /\ \A t \in Threads :
        pc[t] = "limit_done" /\ wait[t] = None /\ call[t].seen = 0

\* The Any under a limiter: the limiter itself or what its Synced wraps.
IsAny(l) == l.kind = "Any" \/ (l.kind = "Synced" /\ l.inner.kind = "Any")

Children(l) == IF l.kind = "Synced" THEN l.inner.children ELSE l.children

\* What the children of an Any return from wait_time.
ChildWaits(l, t) == {WaitTime(Children(l)[i], t) : i \in DOMAIN Children(l)}

\* C13: Any.wait_time is None when the wait_time of at least one child is
\* None, and the smallest of the children's wait_time values otherwise.
C13_AnyWaitTimeNoneOrMin ==
    IsAny(lim) =>
        WaitTime(lim, now) =
            IF None \in ChildWaits(lim, now) THEN None
            ELSE CHOOSE w \in ChildWaits(lim, now) :
                    \A v \in ChildWaits(lim, now) : w <= v

\* C13 witness: both children wait, the second for less than the first, and
\* Any.wait_time is the wait of the second.
C13_SecondChildIsMin ==
    /\ IsAny(lim)
    /\ WaitTime(Children(lim)[1], now) # None
    /\ WaitTime(Children(lim)[2], now) # None
    /\ WaitTime(Children(lim)[2], now) < WaitTime(Children(lim)[1], now)
    /\ WaitTime(lim, now) = WaitTime(Children(lim)[2], now)

\* C14: Any.use() uses and Any.reset() resets every child once, whatever the
\* child's wait_time, so each child is in the state it would have had the
\* same use() and reset() calls been made on it directly at the same timer
\* values.
C14_ChildrenAsIfCalledDirectly ==
    (IsAny(lim) /\ NoUseInProgress) =>
        \A i \in DOMAIN Children(lim) : Children(lim)[i] = Children(shadow)[i]

\* C14 witness: three uses within one window of the Windowed child, the
\* last two less than the ConstantRate child's delay apart, have reached
\* both children although each of them was waiting.
C14_BothChildrenUsedWhileWaiting ==
    /\ IsAny(lim)
    /\ NoUseInProgress
    /\ Len(log) >= 3
    /\ log[Len(log)] - log[Len(log) - 1] < Children(lim)[1].delay
    /\ Children(lim)[1].last_t = log[Len(log)]
    /\ Children(lim)[2].window_count = Children(lim)[2].max + 1

IsPrimitive(l) == l.kind \in {"Unlimited", "ConstantRate", "LeakyBucket", "Windowed"}

\* C15 (as claimed): for every primitive with positive parameters, in any
\* reachable state, wait_time read right after reset() at the same timer
\* value is None.
C15_ResetThenNoWait ==
    [][((\E t \in Threads : RawReset(t))
            /\ IsPrimitive(lim)
            /\ (lim.kind = "LeakyBucket" => lim.burst > 0))
                => WaitTime(lim', now') = None]_vars

\* C16 (as claimed): for every limiter a wait_time that is not None is
\* strictly positive.  (Stated for the limiters whose bucket, if they are a
\* LeakyBucket, holds more than one request.)
C16_WaitTimePositive ==
    (lim.kind = "LeakyBucket" => lim.burst > LevelDen)
        => (WaitTime(lim, now) # None => WaitTime(lim, now) > 0)

\* A LeakyBucket whose capacity is a whole number of requests, at least one,
\* has just been filled by that many use() calls at one timer value, and no
\* use() or reset() came after them.
FilledAtOnce(l) ==
    /\ l.kind = "LeakyBucket"
    /\ l.burst >= LevelDen
    /\ l.burst % LevelDen = 0
    /\ l.last_v = l.burst
    /\ Len(log) >= l.burst \div LevelDen
    /\ \A i \in (Len(log) - l.burst \div LevelDen + 1)..Len(log) : log[i] = l.last_t

\* C17 (as claimed): a LeakyBucket with margin 0 and integer burst that took
\* burst use() calls at one instant has level burst and a positive
\* wait_time at that instant, and wait_time None once the timer has
\* advanced by exactly 1/rate.
C17_OneSlotFreesAfterOneOverRate ==
    FilledAtOnce(lim) =>
        /\ now = lim.last_t =>
                /\ Current(lim, now) = lim.burst
                /\ WaitTime(lim, now) # None
                /\ WaitTime(lim, now) > 0
        /\ now = lim.last_t + LevelDen \div lim.rate => WaitTime(lim, now) = None

\* wait_time with None counted as 0.
WaitOrZero(l, t) == IF WaitTime(l, t) = None THEN 0 ELSE WaitTime(l, t)

\* The current windows of two Windowed limiters were opened at one instant.
SameOpening(a, b) == a.window_end - a.window = b.window_end - b.window

\* C18 (as claimed): of two ConstantRate, LeakyBucket or Windowed limiters
\* that differ in margin only and took the same use() calls, the one with
\* the larger margin never reports the smaller wait_time (None being 0).
C18_LargerMarginWaitsLonger ==
    WaitOrZero(lim, now) <= WaitOrZero(shadow, now)

\* C18 (amended): the same for ConstantRate and LeakyBucket, and for
\* Windowed while the current windows of the two limiters were opened by
\* the same use().
C18_LargerMarginWaitsLongerSameWindow ==
    (lim.kind = "Windowed" => SameOpening(lim, shadow))
        => WaitOrZero(lim, now) <= WaitOrZero(shadow, now)

\* C18 witness: the window of the limiter with the smaller margin is over
\* while the one with the larger margin, opened by the same use() and full,
\* still waits.
C18_LongerWindowStillWaits ==
    /\ lim.kind = "Windowed"
    /\ SameOpening(lim, shadow)
    /\ Len(log) >= lim.max
    /\ WaitTime(lim, now) = None
    /\ WaitTime(shadow, now) > 0

\* C19: in _call_json every request sent is preceded by one limit() call of
\* its own: the limit() calls completed are as many as the requests sent,
\* plus one while a request is about to be sent, the retry included; and
\* limit() runs nowhere else in the call.
C19_OneLimitPerRequest ==
    /\ http.limits = http.requests + (IF http.pc = "request" THEN 1 ELSE 0)
    /\ (\E t \in Threads : pc[t] # "idle") => http.pc = "limiting"

\* C19 witness: the call went through limit() a second time from the point
\* of the retry, and then sent its second request.
C19_RetryWentThroughLimit ==
    /\ http.pc = "response"
    /\ http.attempt = 2
    /\ http.limits = 2
    /\ http.requests = 2
    /\ Len(http.slept) = 1

\* The seconds the claim has _call_json sleep for a retry-after header.
ClaimedRetry(h) ==
    CASE h = "1" -> 1
      [] h = "-1" -> -1
      [] OTHER -> 2

\* C20 (as claimed): a _call_json call sends at most two requests, the
\* second if and only if the first answer has status 429, after one sleep
\* of the retry-after header in seconds (2 when missing or unparsable).
C20_SecondRequestIffFirst429 ==
    /\ http.requests <= 2
    /\ http.pc = "done" =>
            /\ http.requests = 2 <=> http.first = 429
            /\ http.requests = 2 => http.slept = <<ClaimedRetry(http.firstHeader)>>

\* The parameters a limiter was constructed with: the fields no call
\* assigns.
RECURSIVE Params(_)
Params(l) ==
    CASE l.kind = "Unlimited" -> <<"Unlimited">>
      [] l.kind = "ConstantRate" -> <<"ConstantRate", l.delay>>
      [] l.kind = "LeakyBucket" -> <<"LeakyBucket", l.rate, l.burst>>
      [] l.kind = "Windowed" -> <<"Windowed", l.max, l.window>>
      [] l.kind = "Any" ->
            <<"Any", [i \in DOMAIN l.children |-> Params(l.children[i])]>>
      [] l.kind = "Synced" -> <<"Synced", Params(l.inner)>>

\* A new limiter constructed at timer value t with the parameters of l.
Fresh(l, t) == CHOOSE c \in ConfigsAt(t) : Params(c) = Params(l)

\* C21: after any sequence of operations, reset() at timer value t leaves
\* a limiter in exactly the state of a new limiter constructed with the
\* same parameters at t (reset() has a result in every state: it never
\* raises).
C21_ResetIsFresh ==
    /\ \E c \in ConfigsAt(now) : Params(c) = Params(lim)
    /\ Reset(lim, now) = Fresh(lim, now)

\* C21 witness: a limiter that recorded uses at different timer values was
\* reset after the timer had advanced again, and is as new.
C21_ResetAfterUses ==
    /\ Len(log) = MaxUses
    /\ log[1] < log[Len(log)]
    /\ log[Len(log)] < now
    /\ lim.kind \in {"Windowed", "Any"}
    /\ ~greedy
    /\ lim = Fresh(lim, now)

\* C22: Windowed.use() at now >= window_end (now = window_end included)
\* sets window_end = now + window and window_count = 1; at now < window_end
\* it adds 1 to window_count and leaves window_end as it is.
C22_UseOpensOrCounts ==
    [][((\E t \in Threads : RawUse(t, MaxUses)) /\ lim.kind = "Windowed") =>
            IF now >= lim.window_end
            THEN lim' = [lim EXCEPT !.window_end = now + lim.window,
                                    !.window_count = 1]
            ELSE lim' = [lim EXCEPT !.window_count = lim.window_count + 1]]_vars

\* C22 witness: a use() made exactly one window after the use() before it
\* opened a new window with window_count = 1.
C22_OpenedExactlyAtWindowEnd ==
    /\ lim.kind = "Windowed"
    /\ Len(log) >= 2
    /\ log[Len(log)] = log[Len(log) - 1] + lim.window
    /\ lim.window_end = log[Len(log)] + lim.window
    /\ lim.window_count = 1

\* C23: for Windowed, once max uses are counted in the current window,
\* wait_time is window_end - now at every now < window_end; it is None at
\* every now >= window_end and whenever window_count < max.
C23_WaitsUntilWindowEnd ==
    lim.kind = "Windowed" =>
        /\ (lim.window_count >= lim.max /\ now < lim.window_end)
                => WaitTime(lim, now) = lim.window_end - now
        /\ now >= lim.window_end => WaitTime(lim, now) = None
        /\ lim.window_count < lim.max => WaitTime(lim, now) = None

\* C23 witness: the window is full, the timer has advanced since the last
\* use() and stands before window_end, and wait_time is what is left.
C23_PartOfWindowLeft ==
    /\ lim.kind = "Windowed"
    /\ lim.window_count = lim.max
    /\ Len(log) >= lim.max
    /\ log[Len(log)] < now
    /\ now < lim.window_end
    /\ WaitTime(lim, now) = lim.window_end - now
    /\ WaitTime(lim, now) < lim.window

\* C24: for ConstantRate, wait_time is last_t + delay - now when that is
\* positive and None otherwise; with rate = 2 and margin = 0, after a use()
\* at t = 0 it is 0.1 at t = 0.4 and None at every t >= 0.5.
C24_WaitIsRestOfDelay ==
    lim.kind = "ConstantRate" =>
        /\ WaitTime(lim, now) =
                IF lim.last_t + lim.delay - now > 0
                THEN lim.last_t + lim.delay - now
                ELSE None
        /\ (lim = ConstantRateUse(ConstantRate(2, 0, 0), 0) /\ log = <<0>>) =>
                /\ now = (4 * TicksPerSec) \div 10
                        => WaitTime(lim, now) = TicksPerSec \div 10
                /\ now >= TicksPerSec \div 2 => WaitTime(lim, now) = None

\* C24 witness: rate = 2, margin = 0, one use() at t = 0, the timer at 0.4
\* and wait_time 0.1.
C24_TenthLeftAtFourTenths ==
    /\ lim = ConstantRateUse(ConstantRate(2, 0, 0), 0)
    /\ log = <<0>>
    /\ now = (4 * TicksPerSec) \div 10
    /\ WaitTime(lim, now) = TicksPerSec \div 10

\* The children an operand of | brings: its own if it is an Any, else itself.
Brings(l) == IF l.kind = "Any" THEN l.children ELSE <<l>>

\* C25: a | b is an Any whose children are those the operands bring, in
\* order; so (a | b) | c and a | (b | c) have the same children, and no
\* Any that was an operand is a direct child of the result.
C25_OrConcatenates ==
    \A b, c \in Operands :
        /\ Or(lim, b) = Any(Brings(lim) \o Brings(b))
        /\ Or(b, lim) = Any(Brings(b) \o Brings(lim))
        /\ Or(Or(lim, b), c).children = Or(lim, Or(b, c)).children
        /\ \A x \in {lim, b} : \A i \in DOMAIN Or(lim, b).children :
                x.kind = "Any" => Or(lim, b).children[i] # x

\* C25 witness: an Any of MaxChildren children was built by | from an Any
\* on the left and an Any on the right, a Synced(Any) staying one child.
C25_MergedFromBothSides ==
    /\ lim.kind = "Any"
    /\ Len(lim.children) = MaxChildren
    /\ lim.children[1].kind = "Synced"
    /\ SubSeq(lim.children, 2, 3) = <<ConstantRate(20, 50, 0), Windowed(2, 4, 0, 0)>>
    /\ lim.children[4].kind = "Unlimited"

\* C26: limit_iter yields the items of its source in order; for each item
\* one limit() call is completed after the item is pulled and before it is
\* yielded; no limit() call is made beyond the items pulled, none at all
\* for an empty source.
C26_OneLimitPerItem ==
    /\ iter.yielded = SubSeq(iter.src, 1, Len(iter.yielded))
    /\ iter.pulled <= Len(iter.src)
    /\ iter.pc \in {"none", "suspended", "pull", "exhausted"}
            => (iter.limits = iter.pulled /\ Len(iter.yielded) = iter.pulled)
    /\ iter.pc \in {"limit", "limiting"}
            => (iter.limits + 1 = iter.pulled /\ Len(iter.yielded) + 1 = iter.pulled)
    /\ iter.pc = "yield"
            => (iter.limits = iter.pulled /\ Len(iter.yielded) + 1 = iter.pulled)
    /\ (\E t \in Threads : pc[t] # "idle") => iter.pc = "limiting"
    /\ Len(log) <= iter.pulled

\* C26 witness: a source of MaxItems items is exhausted, all of them were
\* yielded, each after a limit() call of its own, the last at a later
\* timer value than the first.
C26_AllYieldedAfterSleep ==
    /\ iter.pc = "exhausted"
    /\ Len(iter.src) = MaxItems
    /\ iter.yielded = iter.src
    /\ iter.limits = MaxItems
    /\ Len(log) = MaxItems
    /\ log[Len(log)] > log[1]

\* Where a thread is while it executes the with block of Synced.use or
\* Synced.reset.
InsideWith == {"in_use", "use_write", "use_release", "in_reset", "reset_release"}

\* The next step of a thread inside the with block.
StepInside(t) ==
    \/ SyncedUseInner(t)
    \/ SyncedUseWrite(t)
    \/ SyncedUseRelease(t)
    \/ SyncedResetInner(t)
    \/ SyncedResetRelease(t)

TermConfigs ==
    { ConstantRate(20, 0, 0),
      LeakyBucket(20, 2, 0, 0),
      Windowed(2, 4, 0, 0),
      Any(<<ConstantRate(20, 50, 0), Windowed(2, 4, 0, 0)>>),
      synced(Any(<<ConstantRate(20, 50, 0), Windowed(2, 4, 0, 0)>>)),
      Any(<<>>),
      synced(Any(<<>>)) }

InitTerm == \E l \in TermConfigs : InitWith(l, 1..NThreads)

\* The next statement of a thread that is inside limit().
LimitStep(t) ==
    \/ LimitRead(t)
    \/ LimitSleep(t)
    \/ Wake(t)
    \/ LimitUse(t)
    \/ SyncedUseInner(t)
    \/ SyncedUseWrite(t)
    \/ SyncedUseRelease(t)

NextTerm ==
    \/ \E t \in Threads : CallLimit(t, MaxUsesSync)
    \/ \E t \in Threads : LimitRead(t)
    \/ \E t \in Threads : LimitSleep(t)
    \/ \E t \in Threads : Wake(t)
    \/ \E t \in Threads : LimitUse(t)
    \/ \E t \in Threads : SyncedUseInner(t)
    \/ \E t \in Threads : SyncedUseWrite(t)
    \/ \E t \in Threads : SyncedUseRelease(t)
    \/ \E t \in Threads : LimitReturn(t)
    \/ \E d \in 1..MaxStep : Advance(d, MaxTimeSync)

\* A thread that is inside limit() keeps running and time.sleep returns
\* when its time is over: weak fairness of every thread's next statement.
SpecTerm ==
    /\ InitTerm
    /\ [][NextTerm]_vars
    /\ \A t \in 1..NThreads : WF_vars(LimitStep(t))

\* Every Any inside l has at least one child.
RECURSIVE AnysHaveChildren(_)
AnysHaveChildren(l) ==
    IF l.kind = "Any"
    THEN Len(l.children) > 0
            /\ \A i \in 1..Len(l.children) : AnysHaveChildren(l.children[i])
    ELSE IF l.kind = "Synced" THEN AnysHaveChildren(l.inner)
    ELSE TRUE

\* C28: every call of limit() eventually reaches use() and returns.
C28_LimitReturns ==
    \A t \in 1..NThreads : (pc[t] = "limit_read") ~> (pc[t] = "limit_done")

\* C28, the limiters the claim lists: when every Any has a child, wait_time
\* is None or finite in every state.
C28_WaitTimeFiniteWithChildren ==
    AnysHaveChildren(lim) => WaitTime(lim, now) < Inf

\* C28, the limiters the claim lists: when every Any has a child, every
\* call of limit() eventually reaches use() and returns.
C28_LimitReturnsWithChildren ==
    \A t \in 1..NThreads :
        (AnysHaveChildren(lim) /\ pc[t] = "limit_read") ~> (pc[t] = "limit_done")

\* C28: limit() on an Any without children was left by the exception of
\* time.sleep.
C28_EmptyAnyRaised ==
    \E t \in Threads : pc[t] = "raised" /\ ~AnysHaveChildren(lim)

\* C29: under a single caller that only calls limit(), a LeakyBucket whose
\* capacity is at least one request has room for the request at every
\* use(), so use() records it whole and the clamp changes nothing; and the
\* uses recorded within any span of time number at most burst + rate * span.
C29_RoomAtEveryUse ==
    /\ [][\A t \in Threads :
            (lim.kind = "LeakyBucket" /\ lim.burst >= LevelDen /\ LimitUse(t))
                => /\ Current(lim, now) + LevelDen <= lim.burst
                   /\ lim'.last_v = Current(lim, now) + LevelDen]_vars
    /\ []((lim.kind = "LeakyBucket" /\ lim.burst >= LevelDen)
            => \A i, j \in 1..Len(log) :
                   i <= j => (j - i + 1) * LevelDen
                                <= lim.burst + lim.rate * (log[j] - log[i]))

\* C29 witness: limit() slept for a positive time and its use() then filled
\* the bucket exactly to its capacity, after earlier uses.
C29_FilledToCapacityAfterSleep ==
    \E t \in Threads :
        /\ lim.kind = "LeakyBucket"
        /\ lim.burst >= LevelDen
        /\ pc[t] = "limit_done"
        /\ Len(call[t].slept) = 1
        /\ call[t].slept[1] > 0
        /\ Len(log) >= 3
        /\ lim.last_v = lim.burst
        /\ lim.last_t = now

\* ---------------------------------------------------------------------
\* Paged: the items of a paginated endpoint, fetched page by page while the
\* caller iterates.  The server holds the items 1..total and answers a
\* request for a page with that page's items, in order.

\* Paged.__init__: self.pagesize
PageSize == 10

\* Paged.__init__: self.bound_low
BoundLow == 0

\* get_page(page, limit) against a server holding the items 1..total.
ServerPage(total, page, limit) ==
    [j \in 1..Max(0, Min(limit, total - (page - 1) * limit))
        |-> (page - 1) * limit + j]

\* Paged.limit(amt): the new bound_high.
PagedLimit(amt) == BoundLow + amt

\* Paged.__iter__, line 44: where the slice data[pageoffset:pagemax] stops.
SliceStop(p) == Min(p.pagemax, Len(p.data))

\* Faulty variant: only an empty page ends the iteration.
LastPageEmpty(data) == Len(data) = 0

\* Paged.__iter__, line 46: the page is shorter than pagesize.
LastPage(data) == Len(data) < PageSize

\* The other variables, which Paged does not touch.
PagedOnly ==
    UNCHANGED <<now, lim, lock, pc, wait, caller, wake, log, greedy, call,
                lastRead, idles, local, shadow, http, iter>>

\* A Paged is made for a server with total items, limit(n) is called on it
\* unless n is None, and the caller starts to iterate: i = self.bound_low.
PagedIter(total, n) ==
    /\ paged.pc = "none"
    /\ paged' = [NoPaged EXCEPT !.pc = "test",
                                !.total = total,
                                !.bound_high = IF n = None THEN None
                                               ELSE PagedLimit(n),
                                !.i = BoundLow]
    /\ PagedOnly

\* Paged.__iter__, lines 36-42: the loop test, then page, pageoffset and
\* pagemax.
PagedTest ==
    /\ paged.pc = "test"
    /\ paged' =
          IF paged.bound_high = None \/ paged.i < paged.bound_high
          THEN LET page == paged.i \div PageSize
               IN  [paged EXCEPT !.pc = "get",
                                 !.page = page,
                                 !.pageoffset = paged.i - page * PageSize,
                                 !.pagemax = IF paged.bound_high # None
                                             THEN paged.bound_high - page * PageSize
                                             ELSE PageSize]
          ELSE [paged EXCEPT !.pc = "done"]
    /\ PagedOnly

\* Paged.__iter__, line 43: self._get_page(page=page + 1, limit=self.pagesize)
PagedGetPage ==
    /\ paged.pc = "get"
    /\ paged' = [paged EXCEPT !.pc = "yield",
                              !.data = ServerPage(paged.total, paged.page + 1, PageSize),
                              !.requested = Append(@, paged.page + 1),
                              !.k = paged.pageoffset]
    /\ PagedOnly

\* Paged.__iter__, line 44: yield from data[pageoffset:pagemax], one item.
PagedYield ==
    /\ paged.pc = "yield"
    /\ paged.k < SliceStop(paged)
    /\ paged' = [paged EXCEPT !.yielded = Append(@, paged.data[paged.k + 1]),
                              !.k = @ + 1]
    /\ PagedOnly

\* Paged.__iter__, lines 45-47: the slice is exhausted; i is advanced and a
\* short page ends the iteration.
PagedAdvance ==
    /\ paged.pc = "yield"
    /\ paged.k >= SliceStop(paged)
    /\ paged' = [paged EXCEPT !.i = @ + Min(Len(paged.data), paged.pagemax)
                                        - paged.pageoffset,
                              !.pc = IF LastPage(paged.data) THEN "done"
                                     ELSE "test"]
    /\ PagedOnly

\* The next statement of the generator.
PagedStep ==
    \/ PagedTest
    \/ PagedGetPage
    \/ PagedYield
    \/ PagedAdvance

InitPaged == InitWith(Unlimited, {1})

NextPaged ==
    \/ \E total \in 0..MaxTotal, n \in {None} \cup (0..(MaxTotal + 1)) :
            PagedIter(total, n)
    \/ PagedTest
    \/ PagedGetPage
    \/ PagedYield
    \/ PagedAdvance

SpecPaged == InitPaged /\ [][NextPaged]_vars

\* The number of items wanted from the server: min(n, total), or total when
\* limit() was not called.
Wanted ==
    IF paged.bound_high = None THEN paged.total
    ELSE Min(paged.bound_high, paged.total)

\* C30: iterating a Paged (bound_low = 0, pagesize = 10) yields the server's
\* items in order from the first, none repeated or skipped and never more
\* than min(n, total); the pages requested are 1, 2, ... each once, every
\* page before a requested one was full and fewer than n items had been
\* yielded before it; the generator can always go on until it is done, and
\* it is done with exactly min(n, total) items yielded (total with no
\* limit, and then the last page requested was short, possibly empty).
C30_PagedYieldsFirstItems ==
    paged.pc # "none" =>
        /\ \A j \in 1..Len(paged.yielded) : paged.yielded[j] = j
        /\ Len(paged.yielded) <= Wanted
        /\ \A j \in 1..Len(paged.requested) :
                /\ paged.requested[j] = j
                /\ (j - 1) * PageSize <= paged.total
                /\ paged.bound_high # None => (j - 1) * PageSize < paged.bound_high
        /\ paged.pc # "done" => ENABLED PagedStep
        /\ paged.pc = "done" =>
                /\ Len(paged.yielded) = Wanted
                /\ \/ paged.bound_high # None /\ Len(paged.yielded) = paged.bound_high
                   \/ /\ Len(paged.requested) > 0
                      /\ paged.total < Len(paged.requested) * PageSize

\* C30 witness: limit(n) with n inside the second page of a larger server;
\* the iteration is done after two requests and n items.
C30_StoppedInsideSecondPage ==
    /\ paged.pc = "done"
    /\ paged.bound_high # None
    /\ paged.bound_high > PageSize
    /\ paged.bound_high < 2 * PageSize
    /\ paged.bound_high < paged.total
    /\ paged.requested = <<1, 2>>
    /\ Len(paged.yielded) = paged.bound_high
====
